---- MODULE Spec2Model ----
(***************************************************************************)
(* Model of the watermark backend: the BCH identifier codec shared by      *)
(* ImageService._send_to_ai_server and                                     *)
(* ImageService._send_to_ai_server_for_verification, the upload saga of    *)
(* ImageService.upload_image and the verification sequence of              *)
(* ValidationService.validate_image.                                       *)
(***************************************************************************)
EXTENDS Integers, Sequences, FiniteSets, TLC

VARIABLES
    codecId,        \* codec run: the identifier handed to the encoder as the set of its 1 bits
    codecPayload,   \* codec run: the 64-character bit string, possibly corrupted
    codecFlips,     \* codec run: the string positions corrupted so far
    codecOut,       \* codec run: what the verification-side decoding produced
    codecPc,        \* codec run: "start" | "sent" | "done" | "off"
    enumMembers,    \* the member names of the enum ProtectionAlgorithm
    imageRows,      \* committed rows of table image
    nextImageId,    \* AUTO_INCREMENT counter of table image
    blobs,          \* the bucket: path -> bytes
    recordRows,     \* committed rows of table validation_record
    nextUuid,       \* stands for uuid.uuid4(): the next fresh token
    mails,          \* notifications raised for asset owners, in order
    up,             \* upload_image tasks: position and locals
    vp,             \* validate_image tasks: position and locals
    started,        \* handler calls accepted so far
    diffRef,        \* analyzer run: pixels of the reference image
    diffCand,       \* analyzer run: pixels of the submitted image
    diffOut,        \* analyzer run: what _create_difference_mask returned
    diffNote,       \* analyzer run: the notification decided for the result
    diffPc,         \* analyzer run: "start" | "compared" | "done" | "off"
    rp,             \* update_user_report call: position and locals
    simple,         \* SimpleScheduler of background_tasks.py and its clock
    background      \* BackgroundScheduler of scheduler.py and its workers

codecVars == <<codecId, codecPayload, codecFlips, codecOut, codecPc>>

sysVars == <<enumMembers, imageRows, nextImageId, blobs, recordRows, nextUuid,
             mails, up, vp, started>>

diffVars == <<diffRef, diffCand, diffOut, diffNote, diffPc>>

reportVars == <<rp>>

schedVars == <<simple, background>>

vars == <<codecId, codecPayload, codecFlips, codecOut, codecPc, enumMembers,
          imageRows, nextImageId, blobs, recordRows, nextUuid, mails, up, vp,
          started, diffRef, diffCand, diffOut, diffNote, diffPc, rp, simple,
          background>>

(***************************************************************************)
(* Polynomials over GF(2) are sets of exponents.  An integer is written as *)
(* the set of positions of its 1 bits where its value may exceed 31 bits   *)
(* (identifiers range up to 2^39).                                         *)
(***************************************************************************)
SetMax(S) == CHOOSE x \in S : \A y \in S : y <= x

XorSet(A, B) == (A \ B) \cup (B \ A)

PolyShift(P, s) == {e + s : e \in P}

\* image_service.py:244 / :492
n == 63

\* image_service.py:245 / :494
t == 4

\* image_service.py:246 / :496
d == 2 * t + 1

\* message length of galois.BCH(63, d=9)
k == 39

\* generator polynomial of galois.BCH(63, d=9): lcm of the minimal polynomials
\* of alpha^1 .. alpha^8 in GF(2^6) built on the Conway polynomial
\* x^6 + x^4 + x^3 + x + 1, alpha = x
GeneratorPoly == {0, 5, 7, 8, 10, 11, 12, 14, 15, 16, 18, 19, 21, 23, 24}

RECURSIVE PolyMod(_)
PolyMod(P) ==
    IF P = {} \/ SetMax(P) < n - k
    THEN P
    ELSE PolyMod(XorSet(P, PolyShift(GeneratorPoly, SetMax(P) - (n - k))))

\* bits of a small natural number, and back
NatBits(i) == {b \in 0..30 : (i \div (2 ^ b)) % 2 = 1}

RECURSIVE BitsNat(_)
BitsNat(S) == IF S = {} THEN 0 ELSE 2 ^ SetMax(S) + BitsNat(S \ {SetMax(S)})

\* f"{image_id:039b}": at least 39 binary digits, most significant first
Format039b(idBits) ==
    LET len == IF idBits = {} \/ SetMax(idBits) < k THEN k ELSE SetMax(idBits) + 1
    IN  [j \in 1..len |-> IF (len - j) \in idBits THEN 1 ELSE 0]

\* int(decoded_bit, 2)
ParseBinary(s) == {Len(s) - j : j \in {i \in 1..Len(s) : s[i] = 1}}

\* a bit vector, first element the highest-degree coefficient, as a polynomial
VecPoly(v) == {Len(v) - j : j \in {i \in 1..Len(v) : v[i] = 1}}

PolyVec(P, len) == [j \in 1..len |-> IF (len - j) \in P THEN 1 ELSE 0]

\* bch.encode(message): systematic, message followed by the parity
\* (message * x^(n-k)) mod generator; a message of another length is refused
BchEncode(msg) ==
    IF Len(msg) # k
    THEN [ok |-> FALSE, codeword |-> <<>>]
    ELSE LET shifted == PolyShift(VecPoly(msg), n - k)
         IN  [ok |-> TRUE, codeword |-> PolyVec(shifted \cup PolyMod(shifted), n)]

\* image_service.py:248-251: the 64-character payload sent to the oracle
EncodePayload(idBits) ==
    LET enc == BchEncode(Format039b(idBits))
    IN  IF enc.ok
        THEN [ok |-> TRUE, payload |-> enc.codeword \o <<0>>]
        ELSE [ok |-> FALSE, payload |-> <<>>]

\* syndrome of x^i, for every position of the block
SyndromeOfExp == [i \in 0..(n - 1) |-> PolyMod({i})]

\* error patterns of weight at most 2 and their syndromes
Patterns2 == {{}} \cup {{i, j} : i, j \in 0..(n - 1)}

PatternSyndrome(E) ==
    LET RECURSIVE Acc(_)
        Acc(S) == IF S = {} THEN {}
                  ELSE LET e == CHOOSE x \in S : TRUE
                       IN  XorSet(SyndromeOfExp[e], Acc(S \ {e}))
    IN  Acc(E)

Syndrome2 == [E \in Patterns2 |-> PatternSyndrome(E)]

Syndromes2 == {Syndrome2[E] : E \in Patterns2}

\* a decoder that corrects two errors and no more
ErrorPatternWeight2(s) ==
    IF s \in Syndromes2
    THEN [ok |-> TRUE, errors |-> CHOOSE E \in Patterns2 : Syndrome2[E] = s]
    ELSE [ok |-> FALSE, errors |-> {}]

\* the error pattern of weight at most t with syndrome s, if there is one:
\* bounded-distance decoding, as the Berlekamp-Massey decoder of galois decides it
ErrorPattern(s) ==
    LET halves == {E \in Patterns2 : XorSet(s, Syndrome2[E]) \in Syndromes2}
        Other(E) == CHOOSE F \in Patterns2 : Syndrome2[F] = XorSet(s, Syndrome2[E])
    IN  IF halves = {} THEN [ok |-> FALSE, errors |-> {}]
        ELSE LET E == CHOOSE H \in halves : \A G \in halves : Cardinality(H) <= Cardinality(G)
                 errors == XorSet(E, Other(E))
             IN  IF Cardinality(errors) <= t THEN [ok |-> TRUE, errors |-> errors]
                 ELSE [ok |-> FALSE, errors |-> {}]

\* bch.decode(codeword, errors=True): (message, number of corrected errors);
\* an uncorrectable word gives its message part unchanged and -1
BchDecode(word) ==
    IF Len(word) # n \/ \E i \in 1..Len(word) : word[i] \notin {0, 1}
    THEN [raised |-> TRUE, message |-> <<>>, nErrors |-> 0]
    ELSE LET r   == VecPoly(word)
             fix == ErrorPattern(PolyMod(r))
         IN  IF fix.ok
             THEN [raised |-> FALSE,
                   message |-> SubSeq(PolyVec(XorSet(r, fix.errors), n), 1, k),
                   nErrors |-> Cardinality(fix.errors)]
             ELSE [raised |-> FALSE, message |-> SubSeq(word, 1, k), nErrors |-> -1]

\* decoding that leaves the framing bit on the string
DecodeRecoveredFramed(recovered) ==
    LET dec == BchDecode(recovered)
    IN  IF dec.raised \/ dec.message = <<>>
        THEN [raised |-> TRUE, idBits |-> {}, nErrors |-> 0]
        ELSE [raised |-> FALSE, idBits |-> ParseBinary(dec.message), nErrors |-> dec.nErrors]

\* image_service.py:487-506: recovered_bit of the oracle's answer to the
\* recovered identifier; the error count of bch.decode is not looked at
DecodeRecovered(recovered) ==
    LET dec == BchDecode(SubSeq(recovered, 1, Len(recovered) - 1))
    IN  IF dec.raised \/ dec.message = <<>>
        THEN [raised |-> TRUE, idBits |-> {}, nErrors |-> 0]
        ELSE [raised |-> FALSE, idBits |-> ParseBinary(dec.message), nErrors |-> dec.nErrors]

(***************************************************************************)
(* Data of the service.                                                    *)
(***************************************************************************)
\* models.py:15-16: class ProtectionAlgorithm(Enum) declares one member
ProtectionAlgorithm == {"EditGuard"}

\* config.py:71
MAX_FILE_SIZE_MB == 10

MaxFileBytes == MAX_FILE_SIZE_MB * 1024 * 1024

Users == {1, 2}

\* the users who upload
Uploaders == {1}

\* pixels are RGB triples; an image is a tuple of pixels (images that are
\* compared have the same size, so the resize branch of the analyzer is not
\* taken)
PixelA == <<10, 10, 10>>

PixelFar == <<10, 10, 30>>

\* at Euclidean distance exactly 10 from PixelA, and at sqrt(101)
PixelAt10 == <<20, 10, 10>>

PixelOver10 == <<20, 11, 10>>

ImageA == <<PixelA, PixelA, PixelA, PixelA>>

ImageMixed == <<PixelA, PixelFar, PixelOver10, PixelAt10>>

\* a 50 x 50 image of one colour
ImageLarge == [i \in 1..2500 |-> PixelA]

\* a mask image: its kind and the alpha channel of its pixels
NoMask == [kind |-> "", alpha |-> <<>>]

\* bytes of a file or blob: decodable pixels (or none), the payload an oracle
\* embedded in them (or <<>>), and the mask drawn into them (or NoMask)
Bytes(px, mark) == [px |-> px, mark |-> mark, mask |-> NoMask]

NoPixels == <<>>

PlainA == Bytes(ImageA, <<>>)

Garbage == Bytes(NoPixels, <<>>)

\* a file name as the parts the code looks at
FileName(protected, stem, ext) == [protected |-> protected, stem |-> stem, ext |-> ext]

UploadFile(name, ctype, size, content) ==
    [filename |-> name, content_type |-> ctype, size |-> size, content |-> content]

GoodFile == UploadFile(FileName(FALSE, "a", "png"), "image/png", 1024, PlainA)

\* GoodFile; a name the service marked; a JPEG; a .png name declared as
\* another type; a file over the cap; an empty file
UploadFiles ==
    {GoodFile,
     UploadFile(FileName(TRUE, "a", "png"), "image/png", 1024, PlainA),
     UploadFile(FileName(FALSE, "a", "jpg"), "image/jpeg", 1024, PlainA),
     UploadFile(FileName(FALSE, "a", "png"), "image/jpeg", 1024, PlainA),
     UploadFile(FileName(FALSE, "a", "png"), "image/png", MaxFileBytes + 1, PlainA),
     UploadFile(FileName(FALSE, "a", "png"), "image/png", 0, Garbage)}

AlgorithmNames == {"EditGuard", "FAKEFACE", "RobustWide"}

\* a validation that does not look at the size
validate_fileNoSize(file) ==
    IF file.filename.ext # "png" THEN 400
    ELSE IF file.content_type # "image/png" THEN 400
    ELSE 0

\* image_service.py:27-51: the status validate_file raises, or 0
validate_file(file) ==
    IF file.filename.ext # "png" THEN 400
    ELSE IF file.content_type # "image/png" THEN 400
    ELSE IF file.size # 0 /\ file.size > MaxFileBytes THEN 413
    ELSE 0

\* image_service.py:53-57
clean_filename(name) == [name EXCEPT !.protected = FALSE]

\* storage_service.py:80-87 and image_service.py:108-110
GtPath(id, name) == <<"image", id, name.stem, "origi">>

SrhPath(id, name) == <<"image", id, name.stem, "wm">>

\* storage_service.py:95-97
get_record_path(uuid, leaf) == <<"record", uuid, leaf>>

Put(store, path, content) ==
    [q \in DOMAIN store \cup {path} |-> IF q = path THEN content ELSE store[q]]

Delete(store, path) == [q \in DOMAIN store \ {path} |-> store[q]]

\* a row of table image; tx is the task whose open transaction inserted it,
\* or "committed".  Statements of other tasks see committed rows only.
ImageRecord(id, user, name, tx) == [id |-> id, user_id |-> user, filename |-> name, tx |-> tx]

CommittedImages == {r \in imageRows : r.tx = "committed"}

\* the rows of table validation_record with a token
RecordsOf(uuid) == {r \in recordRows : r.uuid = uuid}

\* a read that also returns the rows of open transactions
ImageIdsUncommitted == {r.id : r \in imageRows}

ImageIds == {r.id : r \in CommittedImages}

ImageRow(id) == CHOOSE r \in CommittedImages : r.id = id

\* a transaction that commits however it is left
TransactionExitCommits(rows, u, raised) ==
    {IF r.tx = u THEN [r EXCEPT !.tx = "committed"] ELSE r : r \in rows}

\* image_service.py:82: leaving "async with database.transaction()" with an
\* exception rolls the task's rows back, leaving it normally commits them
TransactionExit(rows, u, raised) ==
    IF raised THEN {r \in rows : r.tx # u}
    ELSE {IF r.tx = u THEN [r EXCEPT !.tx = "committed"] ELSE r : r \in rows}

(***************************************************************************)
(* upload_image.  Between two points where the coroutine really suspends   *)
(* (the database calls and the HTTP call to the oracle; the boto3 calls of *)
(* StorageService block the event loop) a handler runs as one step.        *)
(***************************************************************************)
\* handler calls (uploads and verifications together) a run accepts
MaxCalls == 2

UploadTasks == {"u1"}

IdleUpload ==
    [pc |-> "idle", user |-> 0, file |-> GoodFile, alg |-> "", id |-> 0,
     name |-> FileName(FALSE, "", ""), payload |-> <<>>, status |-> 0,
     step |-> "", cancelled |-> FALSE]

\* what leaves the handler: the HTTP status of the response or of the
\* exception, and the step that raised it ("" for a response); the locals
\* are gone, the identifier is kept to tell the calls apart
Finish(task, status, step) ==
    [IdleUpload EXCEPT !.pc = "done", !.status = status, !.step = step,
                       !.id = task.id, !.name = task.name]

Cancelled(task) == [Finish(task, 0, task.pc) EXCEPT !.cancelled = TRUE]

\* image_service.py:59-100: validation, then the transaction is opened and the
\* provisional row inserted (the row is private to the transaction)
UploadBegin(u) ==
    /\ up[u].pc \in {"idle", "done"}
    /\ started < MaxCalls
    /\ \E user \in Uploaders, file \in UploadFiles, alg \in AlgorithmNames :
          LET call == [IdleUpload EXCEPT !.user = user, !.file = file, !.alg = alg]
          IN  IF validate_file(file) # 0
              THEN /\ up' = [up EXCEPT ![u] = Finish(IdleUpload, validate_file(file), "validate_file")]
                   /\ UNCHANGED <<imageRows, nextImageId>>
              ELSE IF alg \notin enumMembers
              THEN /\ up' = [up EXCEPT ![u] = Finish(IdleUpload, 400, "enum")]
                   /\ UNCHANGED <<imageRows, nextImageId>>
              ELSE /\ up' = [up EXCEPT ![u] =
                                [call EXCEPT !.pc = "inserted",
                                             !.id = nextImageId,
                                             !.name = clean_filename(file.filename)]]
                   /\ imageRows' = imageRows \cup
                         {ImageRecord(nextImageId, user, clean_filename(file.filename), u)}
                   /\ nextImageId' = nextImageId + 1
    /\ started' = started + 1
    /\ UNCHANGED <<codecVars, diffVars, reportVars, schedVars, enumMembers, blobs, recordRows, nextUuid, mails, vp>>

\* image_service.py:232-258: what _send_to_ai_server does before it awaits the
\* oracle.  ProtectionAlgorithm.FAKEFACE is looked up first: an enum without
\* that member raises AttributeError, which the handler at 291-296 turns
\* into a 502.
SendToAiServerRequest(members, alg, id) ==
    IF "FAKEFACE" \notin members THEN [kind |-> "raise", status |-> 502, payload |-> <<>>]
    ELSE IF alg = "FAKEFACE" THEN [kind |-> "return", status |-> 0, payload |-> <<>>]
    ELSE LET enc == EncodePayload(NatBits(id))
         IN  IF enc.ok THEN [kind |-> "post", status |-> 0, payload |-> enc.payload]
             ELSE [kind |-> "raise", status |-> 502, payload |-> <<>>]

\* storage_service.py:22-34 and :62-73 as used at image_service.py:112-127:
\* the two uploads and, when one fails, the deletion of what was uploaded.
\* s3 says which upload fails, del whether delete_object works.
StoreOutcomes == {"ok", "gt_fails", "srh_fails"}

DeleteOutcomes == {"ok", "fails"}

StoreBlobs(store, task, watermarked, s3, del) ==
    LET gt  == GtPath(task.id, task.name)
        srh == SrhPath(task.id, task.name)
    IN  IF s3 = "gt_fails" THEN store
        ELSE IF s3 = "srh_fails"
        THEN IF del = "ok" THEN Delete(Put(store, gt, task.file.content), gt)
             ELSE Put(store, gt, task.file.content)
        ELSE Put(Put(store, gt, task.file.content), srh, watermarked)

\* image_service.py:102-133 after the watermarked bytes are there: both blob
\* writes, then the handler waits for the commit, or raises (500) and the
\* transaction is rolled back
UploadStore(u, watermarked, s3, del) ==
    /\ blobs' = StoreBlobs(blobs, up[u], watermarked, s3, del)
    /\ up' = [up EXCEPT ![u] = IF s3 = "ok" THEN [@ EXCEPT !.pc = "commit"]
                               ELSE IF s3 = "gt_fails" THEN Finish(@, 500, "gt_write")
                               ELSE Finish(@, 500, "srh_write")]
    /\ imageRows' = IF s3 = "ok" THEN imageRows ELSE TransactionExit(imageRows, u, TRUE)

\* image_service.py:104 and 230-258
UploadSendToAiServer(u) ==
    /\ up[u].pc = "inserted"
    /\ LET req == SendToAiServerRequest(enumMembers, up[u].alg, up[u].id)
       IN  CASE req.kind = "raise" ->
                  /\ up' = [up EXCEPT ![u] = Finish(@, req.status, "request")]
                  /\ imageRows' = TransactionExit(imageRows, u, TRUE)
                  /\ UNCHANGED blobs
             [] req.kind = "return" ->
                  \E s3 \in StoreOutcomes, del \in DeleteOutcomes :
                      UploadStore(u, up[u].file.content, s3, del)
             [] req.kind = "post" ->
                  /\ up' = [up EXCEPT ![u] = [@ EXCEPT !.pc = "oracle", !.payload = req.payload]]
                  /\ UNCHANGED <<blobs, imageRows>>
    /\ UNCHANGED <<codecVars, diffVars, reportVars, schedVars, enumMembers, nextImageId, recordRows, nextUuid, mails, vp, started>>

\* the oracle's answer to POST /upload (image_service.py:261-296): a failure
\* with the status the handler raises for it, or the watermarked bytes
EmbedFailures ==
    {[kind |-> "timeout", status |-> 504], [kind |-> "unreachable", status |-> 502],
     [kind |-> "non200", status |-> 502], [kind |-> "unsuccessful", status |-> 502]}

\* the oracle embeds what it was sent; it has nothing to embed into bytes
\* that are no image
EmbedAnswers(content, payload) ==
    IF content.px = NoPixels THEN {} ELSE {Bytes(content.px, payload)}

UploadOracleFails(u) ==
    /\ up[u].pc = "oracle"
    /\ \E f \in EmbedFailures : up' = [up EXCEPT ![u] = Finish(@, f.status, "oracle")]
    /\ imageRows' = TransactionExit(imageRows, u, TRUE)
    /\ UNCHANGED <<codecVars, diffVars, reportVars, schedVars, enumMembers, nextImageId, blobs, recordRows, nextUuid, mails, vp,
                   started>>

UploadOracleAnswers(u) ==
    /\ up[u].pc = "oracle"
    /\ \E w \in EmbedAnswers(up[u].file.content, up[u].payload),
          s3 \in StoreOutcomes, del \in DeleteOutcomes :
          UploadStore(u, w, s3, del)
    /\ UNCHANGED <<codecVars, diffVars, reportVars, schedVars, enumMembers, nextImageId, recordRows, nextUuid, mails, vp, started>>

\* image_service.py:82 (leaving the async with) and 135-143: the commit makes
\* the row visible; a commit that fails raises out of the handler
UploadCommit(u) ==
    /\ up[u].pc = "commit"
    /\ \E ok \in BOOLEAN :
          /\ imageRows' = TransactionExit(imageRows, u, ~ok)
          /\ up' = [up EXCEPT ![u] = IF ok THEN Finish(@, 200, "") ELSE Finish(@, 500, "commit")]
    /\ UNCHANGED <<codecVars, diffVars, reportVars, schedVars, enumMembers, nextImageId, blobs, recordRows, nextUuid, mails, vp,
                   started>>

\* asyncio.CancelledError thrown into the handler where it is suspended.  It
\* is no Exception: the except clauses at image_service.py:123, 129, 285, 291
\* do not run; the transaction context manager rolls back.  A cancellation
\* during the commit leaves the commit done or not done.
UploadCancel(u) ==
    /\ up[u].pc \in {"oracle", "commit"}
    /\ \E committed \in BOOLEAN :
          /\ committed => up[u].pc = "commit"
          /\ imageRows' = TransactionExit(imageRows, u, ~committed)
    /\ up' = [up EXCEPT ![u] = Cancelled(@)]
    /\ UNCHANGED <<codecVars, diffVars, reportVars, schedVars, enumMembers, nextImageId, blobs, recordRows, nextUuid, mails, vp,
                   started>>

(***************************************************************************)
(* The pixel-difference analyzer (validation_service.py:568-658).  Rates   *)
(* are percentages counted in hundredths of a percent.                     *)
(***************************************************************************)
\* validation_service.py:569
PIXEL_DIFF_THRESHOLD == 10

Square(x) == x * x

\* a comparison that counts a pixel at the threshold
_calculate_pixel_differencesInclusive(input, original) ==
    [i \in 1..Len(original) |->
        Square(input[i][1] - original[i][1]) + Square(input[i][2] - original[i][2])
          + Square(input[i][3] - original[i][3]) >= Square(PIXEL_DIFF_THRESHOLD)]

\* validation_service.py:620-633: sqrt(sum of squared channel differences)
\* exceeds the threshold, for whole-number channels
_calculate_pixel_differences(input, original) ==
    [i \in 1..Len(original) |->
        Square(input[i][1] - original[i][1]) + Square(input[i][2] - original[i][2])
          + Square(input[i][3] - original[i][3]) > Square(PIXEL_DIFF_THRESHOLD)]

\* validation_service.py:635-639
_calculate_tampering_rate(tampered_mask) ==
    LET total    == Len(tampered_mask)
        tampered == Cardinality({i \in 1..total : tampered_mask[i]})
    IN  IF total > 0 THEN (tampered * 10000) \div total ELSE 0

\* a mask with the two colours swapped
_create_mask_imageSwapped(tampered_mask) ==
    [kind |-> "diff",
     alpha |-> [i \in 1..Len(tampered_mask) |-> IF tampered_mask[i] THEN 0 ELSE 255]]

\* validation_service.py:641-658: opaque white where tampered, else transparent
_create_mask_image(tampered_mask) ==
    [kind |-> "diff",
     alpha |-> [i \in 1..Len(tampered_mask) |-> IF tampered_mask[i] THEN 255 ELSE 0]]

\* validation_service.py:660-677
_create_empty_mask == [kind |-> "empty", alpha |-> <<>>]

OracleMask == [kind |-> "oracle", alpha |-> <<>>]

\* validation_service.py:573-599: bytes that PIL cannot open make the except
\* clause answer ("", 0.0)
_create_difference_mask(input_bytes, original_bytes) ==
    IF input_bytes.px = NoPixels \/ original_bytes.px = NoPixels
    THEN [mask |-> NoMask, rate |-> 0]
    ELSE LET tampered_mask == _calculate_pixel_differences(input_bytes.px, original_bytes.px)
         IN  [mask |-> _create_mask_image(tampered_mask),
              rate |-> _calculate_tampering_rate(tampered_mask)]

\* the dict verification_result: tampering_rate is a key that may be absent
\* validation_service.py:710-725
_update_verification_result(result, mask_data, tampering_rate) ==
    IF tampering_rate = 0
    THEN [result EXCEPT !.has_rate = TRUE, !.tampering_rate = 0,
                        !.tampered_regions_mask = _create_empty_mask]
    ELSE [result EXCEPT !.has_rate = TRUE, !.tampering_rate = tampering_rate,
                        !.tampered_regions_mask = mask_data]

\* validation_service.py:679-708: the reference blob is fetched and compared;
\* any exception (blob missing, S3 failing) leaves the result as it was
_process_pixel_comparison_validation(result, input_bytes, store, row, download_ok) ==
    LET path == SrhPath(row.id, row.filename)
    IN  IF ~download_ok \/ path \notin DOMAIN store THEN result
        ELSE LET diff == _create_difference_mask(input_bytes, store[path])
             IN  _update_verification_result(result, diff.mask, diff.rate)

(***************************************************************************)
(* validate_image (validation_service.py:88-285).                          *)
(***************************************************************************)
VerifyTasks == {"v1"}

\* validation_service.py:229: modification_rate > 0.05
NotifyThreshold == 5

IdleVerify ==
    [pc |-> "idle", user |-> 0, file |-> GoodFile, content |-> Garbage,
     name |-> FileName(FALSE, "", ""), alg |-> "", idBits |-> {}, nErrors |-> 0, id |-> 0,
     result |-> [has_rate |-> FALSE, tampering_rate |-> 0, ai_tampering_rate |-> 0,
                 tampered_regions_mask |-> NoMask],
     analyzed |-> "no", uuid |-> 0, status |-> 0, step |-> "", cancelled |-> FALSE]

\* validation_service.py:274-285: every exception raised inside the try leaves
\* as 400 when its text mentions "image", "corrupt" or "invalid", else as 500
ErrorStatus(mentions) == IF mentions THEN 400 ELSE 500

\* what leaves validate_image: the HTTP status and the step that raised it
\* ("" for a response); the locals are gone, the record's uuid and what the
\* decoder said are kept to tell the calls apart
Answer(task, status, step) ==
    [IdleVerify EXCEPT !.pc = "done", !.status = status, !.step = step,
                       !.uuid = task.uuid, !.nErrors = task.nErrors]

VerifyCancelled(task) == [Answer(task, 0, task.pc) EXCEPT !.cancelled = TRUE]

\* what a client may submit: bytes that are no image, a stored watermarked
\* blob as it is or with its first pixel recoloured, and a plain image while
\* nothing is stored
Recolour(content) ==
    IF content.px = NoPixels THEN content
    ELSE Bytes([content.px EXCEPT ![1] = PixelFar], content.mark)

StoredWatermarked == {blobs[q] : q \in {x \in DOMAIN blobs : x[1] = "image" /\ x[4] = "wm"}}

SubmittedContents ==
    IF StoredWatermarked = {} THEN {PlainA, Garbage}
    ELSE {Garbage} \cup StoredWatermarked \cup {Recolour(c) : c \in StoredWatermarked}

\* the names a client sends as "model": a member of the enum and a stranger
VerifyAlgorithmNames == {"EditGuard", "RobustWide"}

\* strings the oracle may report as recovered_bit
Payload(i) == EncodePayload(NatBits(i)).payload

RECURSIVE FlipAll(_, _)
FlipAll(s, ps) ==
    IF ps = {} THEN s
    ELSE LET q == CHOOSE x \in ps : TRUE
         IN  FlipAll([s EXCEPT ![q] = 1 - s[q]], ps \ {q})

Zero64 == [j \in 1..(n + 1) |-> 0]

RecoveredChoices ==
    {Payload(1), Payload(2),
     FlipAll(Payload(1), {40, 45, 50, 55, 60}),
     Zero64, <<0>>}

DecodeTable == [r \in RecoveredChoices |-> DecodeRecovered(r)]

\* the oracle's own estimate that comes with the bits ("acc" and "mask")
OracleEstimates ==
    {[acc |-> 0, mask |-> NoMask], [acc |-> 1250, mask |-> OracleMask]}

\* validation_service.py:88-119: validation, then the request to the oracle
VerifyBegin(v) ==
    /\ vp[v].pc \in {"idle", "done"}
    /\ started < MaxCalls
    /\ \E user \in Users, file \in UploadFiles,
          content \in SubmittedContents, alg \in VerifyAlgorithmNames :
          /\ file.size = 0 => content = Garbage
          /\ IF validate_file(file) # 0
            THEN vp' = [vp EXCEPT ![v] = Answer(IdleVerify, validate_file(file), "validate_file")]
            ELSE IF alg \notin enumMembers
            THEN vp' = [vp EXCEPT ![v] = Answer(IdleVerify, 400, "enum")]
            ELSE vp' = [vp EXCEPT ![v] =
                          [IdleVerify EXCEPT !.pc = "oracle", !.user = user, !.file = file,
                                             !.content = content, !.alg = alg,
                                             !.name = clean_filename(file.filename)]]
    /\ started' = started + 1
    /\ UNCHANGED <<codecVars, diffVars, reportVars, schedVars, enumMembers, imageRows, nextImageId, blobs, recordRows, nextUuid,
                   mails, up>>

\* image_service.py:451-575: the oracle's answer; a transport failure, a
\* non-200 or unsuccessful answer, or bits that bch.decode refuses, all leave
\* as HTTPException 502/504, which validate_image's except clause re-raises.
\* The file object was read at validation_service.py:107-110 and is not
\* looked at again.
VerifyOracleReply(v) ==
    /\ vp[v].pc = "oracle"
    /\ \E reply \in {"fails", "answers"}, mentions \in BOOLEAN,
          recovered \in RecoveredChoices, est \in OracleEstimates :
          LET dec == DecodeTable[recovered]
          IN  IF reply = "fails"
              THEN vp' = [vp EXCEPT ![v] = Answer(@, ErrorStatus(mentions), "oracle")]
              ELSE IF dec.raised
              THEN vp' = [vp EXCEPT ![v] = Answer(@, ErrorStatus(mentions), "decode")]
              ELSE /\ ~mentions
                   /\ vp' = [vp EXCEPT ![v] =
                        [@ EXCEPT !.pc = IF dec.idBits # {} THEN "check" ELSE "insert",
                                  !.file = IdleVerify.file,
                                  !.idBits = dec.idBits,
                                  !.nErrors = dec.nErrors,
                                  !.result = [has_rate |-> FALSE, tampering_rate |-> 0,
                                              ai_tampering_rate |-> est.acc,
                                              tampered_regions_mask |-> est.mask]]]
    /\ UNCHANGED <<codecVars, diffVars, reportVars, schedVars, enumMembers, imageRows, nextImageId, blobs, recordRows, nextUuid,
                   mails, up, started>>

\* a lookup whose result is not looked at
VerifyCheckExistsLenient(v) ==
    /\ vp[v].pc = "check"
    /\ vp' = [vp EXCEPT ![v] = [@ EXCEPT !.id = BitsNat(vp[v].idBits \cap 0..20),
                                         !.pc = "insert"]]
    /\ UNCHANGED <<codecVars, diffVars, reportVars, schedVars, enumMembers, imageRows, nextImageId, blobs, recordRows,
                   nextUuid, mails, up, started>>

\* validation_service.py:126-143: the recovered identifier must name a row
VerifyCheckExists(v) ==
    /\ vp[v].pc = "check"
    /\ LET found == {i \in ImageIds : NatBits(i) = vp[v].idBits}
       IN  IF found = {}
           THEN vp' = [vp EXCEPT ![v] = Answer(@, ErrorStatus(FALSE), "lookup")]
           ELSE vp' = [vp EXCEPT ![v] =
                         [@ EXCEPT !.id = CHOOSE i \in found : TRUE,
                                   !.pc = IF vp[v].alg = "EditGuard" THEN "compare"
                                          ELSE "insert"]]
    /\ UNCHANGED <<codecVars, diffVars, reportVars, schedVars, enumMembers, imageRows, nextImageId, blobs, recordRows, nextUuid,
                   mails, up, started>>

\* validation_service.py:141 and 679-708
VerifyPixelCompare(v) ==
    /\ vp[v].pc = "compare"
    /\ \E download_ok \in BOOLEAN :
          LET row   == ImageRow(vp[v].id)
              path  == SrhPath(row.id, row.filename)
              fetch == download_ok /\ path \in DOMAIN blobs
          IN  vp' = [vp EXCEPT ![v] =
                [@ EXCEPT !.pc = "insert",
                          !.analyzed = IF ~fetch THEN "no_reference"
                                       ELSE IF vp[v].content.px = NoPixels
                                               \/ blobs[path].px = NoPixels
                                       THEN "undecodable" ELSE "compared",
                          !.result = _process_pixel_comparison_validation(
                                         @, vp[v].content, blobs, row, download_ok)]]
    /\ UNCHANGED <<codecVars, diffVars, reportVars, schedVars, enumMembers, imageRows, nextImageId, blobs, recordRows, nextUuid,
                   mails, up, started>>

\* a row that never says a watermark was found
ValidationRecordUnflagged(uuid, user, name, has_watermark, detected, rate, alg) ==
    [uuid |-> uuid, user_id |-> user, input_image_filename |-> name,
     has_watermark |-> FALSE, detected_watermark_image_id |-> detected,
     modification_rate |-> rate, validation_algorithm |-> alg,
     user_report_link |-> "", user_report_text |-> ""]

\* a row of table validation_record
ValidationRecord(uuid, user, name, has_watermark, detected, rate, alg) ==
    [uuid |-> uuid, user_id |-> user, input_image_filename |-> name,
     has_watermark |-> has_watermark, detected_watermark_image_id |-> detected,
     modification_rate |-> rate, validation_algorithm |-> alg,
     user_report_link |-> "", user_report_text |-> ""]

\* the ratio taken from the oracle's estimate
CalculatedRateFromOracle(result) == result.ai_tampering_rate

\* validation_service.py:153-162
CalculatedRate(result) == IF result.has_rate THEN result.tampering_rate ELSE 0

\* a column without the constraint
ForeignKeyUnchecked(detected) == TRUE

\* models.py:45: detected_watermark_image_id is a foreign key to image.id
ForeignKeyHolds(detected) == detected \in ImageIds

\* validation_service.py:153-184: the row is built and inserted (the statement
\* commits on its own); a violated foreign key raises inside the try
\* an insert whose token is the one the previous insert used
VerifyInsertRecordStaleToken(v) ==
    /\ vp[v].pc = "insert"
    /\ recordRows' = {r \in recordRows : r.uuid # 1} \cup
          {ValidationRecord(1, vp[v].user, vp[v].name, vp[v].idBits # {},
                            vp[v].id, CalculatedRate(vp[v].result), vp[v].alg)}
    /\ vp' = [vp EXCEPT ![v] = [@ EXCEPT !.pc = "saved", !.uuid = 1]]
    /\ UNCHANGED <<codecVars, diffVars, reportVars, schedVars, enumMembers, imageRows, nextImageId, blobs, mails, up,
                   started, nextUuid>>

VerifyInsertRecord(v) ==
    /\ vp[v].pc = "insert"
    /\ IF ForeignKeyHolds(vp[v].id)
       THEN /\ recordRows' = recordRows \cup
                 {ValidationRecord(nextUuid, vp[v].user, vp[v].name, vp[v].idBits # {},
                                   vp[v].id, CalculatedRate(vp[v].result), vp[v].alg)}
            /\ nextUuid' = nextUuid + 1
            /\ vp' = [vp EXCEPT ![v] = [@ EXCEPT !.pc = "saved", !.uuid = nextUuid]]
       ELSE /\ vp' = [vp EXCEPT ![v] = Answer(@, ErrorStatus(TRUE), "insert")]
            /\ UNCHANGED <<recordRows, nextUuid>>
    /\ UNCHANGED <<codecVars, diffVars, reportVars, schedVars, enumMembers, imageRows, nextImageId, blobs, mails, up, started>>

\* validation_service.py:188-216: the submitted image, then the mask and the
\* blended image when there is a mask; the first failing upload ends the
\* block and is only logged
ArtifactOutcomes == {"ok", "input_fails", "mask_fails", "combined_fails"}

SaveArtifacts(store, task, s3) ==
    LET mask     == task.result.tampered_regions_mask
        input    == get_record_path(task.uuid, task.name.stem)
        withIn   == Put(store, input, task.content)
        withMask == Put(withIn, get_record_path(task.uuid, "mask.png"),
                        [Bytes(NoPixels, <<>>) EXCEPT !.mask = mask])
        withAll  == Put(withMask, get_record_path(task.uuid, "combined.png"),
                        [Bytes(task.content.px, <<>>) EXCEPT !.mask = mask])
    IN  IF s3 = "input_fails" THEN store
        ELSE IF mask = NoMask \/ s3 = "mask_fails" THEN withIn
        ELSE IF s3 = "combined_fails" THEN withMask
        ELSE withAll

\* validation_service.py:218-224: whether the owner of the asset is looked up
NeedsOwner(task) == task.idBits # {} /\ task.id # 0

VerifySaveArtifacts(v) ==
    /\ vp[v].pc = "saved"
    /\ \E s3 \in ArtifactOutcomes : blobs' = SaveArtifacts(blobs, vp[v], s3)
    /\ vp' = [vp EXCEPT ![v] = IF NeedsOwner(@) THEN [@ EXCEPT !.pc = "owner"]
                               ELSE Answer(@, 200, "")]
    /\ UNCHANGED <<codecVars, diffVars, reportVars, schedVars, enumMembers, imageRows, nextImageId, recordRows, nextUuid, mails,
                   up, started>>

\* a policy that alerts for every ratio above 0
NotificationNoThreshold(task, owner) ==
    IF owner = 0 \/ owner = task.user THEN "none"
    ELSE IF CalculatedRate(task.result) > 0 THEN "forgery" ELSE "confirmation"

\* a policy that also notifies an owner who verifies an own asset
NotificationToAnyone(task, owner) ==
    IF owner = 0 THEN "none"
    ELSE IF CalculatedRate(task.result) # 0 /\ CalculatedRate(task.result) > NotifyThreshold
    THEN "forgery" ELSE "confirmation"

\* validation_service.py:226-253: which notification goes to the owner
Notification(task, owner) ==
    IF owner = 0 \/ owner = task.user THEN "none"
    ELSE IF CalculatedRate(task.result) # 0 /\ CalculatedRate(task.result) > NotifyThreshold
    THEN "forgery" ELSE "confirmation"

\* validation_service.py:218-272: the owner is read, the notification is
\* raised (_send_forgery_detection_email or _send_original_confirmation_email
\* is called; a mail that cannot be delivered is only logged) and the answer
\* returned; a failing owner query raises inside the try
VerifyNotify(v) ==
    /\ vp[v].pc = "owner"
    /\ \E db_ok \in BOOLEAN, sent \in BOOLEAN :
          IF ~db_ok
          THEN /\ ~sent
               /\ vp' = [vp EXCEPT ![v] = Answer(@, ErrorStatus(FALSE), "owner")]
               /\ UNCHANGED mails
          ELSE LET owner == IF vp[v].id \in ImageIds THEN ImageRow(vp[v].id).user_id ELSE 0
                   kind  == Notification(vp[v], owner)
               IN  /\ kind = "none" => ~sent
                   /\ mails' = IF kind # "none"
                               THEN Append(mails, [kind |-> kind, to |-> owner,
                                                   uuid |-> vp[v].uuid, delivered |-> sent])
                               ELSE mails
                   /\ vp' = [vp EXCEPT ![v] = Answer(@, 200, "")]
    /\ UNCHANGED <<codecVars, diffVars, reportVars, schedVars, enumMembers, imageRows, nextImageId, blobs, recordRows, nextUuid,
                   up, started>>

\* asyncio.CancelledError thrown into validate_image where it is suspended
\* ("saved": the insert has been executed and the coroutine not yet resumed);
\* "except Exception" at validation_service.py:274 does not catch it
VerifyCancel(v) ==
    /\ vp[v].pc \in {"oracle", "check", "compare", "insert", "saved", "owner"}
    /\ vp' = [vp EXCEPT ![v] = VerifyCancelled(@)]
    /\ UNCHANGED <<codecVars, diffVars, reportVars, schedVars, enumMembers, imageRows, nextImageId, blobs, recordRows, nextUuid,
                   mails, up, started>>

(***************************************************************************)
(* update_user_report (validation_service.py:1091-1175), the handler of    *)
(* PUT /user-report.  It awaits the database three times: the select of    *)
(* the record, the update, and the select of the updated record.  A        *)
(* statement that raises is answered 500.  NULL is written "".             *)
(***************************************************************************)
\* schemas.py:86-89: both fields are optional
NoReport == [link |-> "", text |-> ""]

ReportData == {NoReport, [link |-> "l1", text |-> "t1"], [link |-> "l2", text |-> "t2"]}

ReportAnswer(call, status) == [call EXCEPT !.pc = "done", !.status = status]

\* validation_service.py:1091-1095; the token is that of the first record
\* or one no record has
ReportBegin ==
    /\ rp.pc \in {"idle", "done"}
    /\ \E user \in Users, uuid \in {1, 9}, data \in ReportData :
          rp' = [pc |-> "select", user |-> user, uuid |-> uuid, data |-> data, status |-> 0]
    /\ UNCHANGED <<codecVars, diffVars, schedVars, sysVars>>

\* a check that lets any caller report
ReportAllowedAnyCaller(record, user) ==
    IF ~record.has_watermark \/ record.modification_rate = 0
       \/ record.modification_rate <= 0
    THEN 400
    ELSE 200

\* validation_service.py:1111-1124: the caller must be the verifier, and
\* the record must say watermark present with a ratio above 0
ReportAllowed(record, user) ==
    IF record.user_id # user THEN 403
    ELSE IF ~record.has_watermark \/ record.modification_rate = 0
            \/ record.modification_rate <= 0
    THEN 400
    ELSE 200

\* validation_service.py:1097-1124
ReportSelect ==
    /\ rp.pc = "select"
    /\ \E db_ok \in BOOLEAN :
          rp' = IF ~db_ok THEN ReportAnswer(rp, 500)
                ELSE IF RecordsOf(rp.uuid) = {} THEN ReportAnswer(rp, 404)
                ELSE LET record == CHOOSE r \in RecordsOf(rp.uuid) : TRUE
                     IN  IF ReportAllowed(record, rp.user) # 200
                         THEN ReportAnswer(rp, ReportAllowed(record, rp.user))
                         ELSE [rp EXCEPT !.pc = "update"]
    /\ UNCHANGED <<codecVars, diffVars, schedVars, sysVars>>

\* validation_service.py:1126-1138: both fields of the row are overwritten
ReportUpdate ==
    /\ rp.pc = "update"
    /\ \E db_ok \in BOOLEAN :
          IF ~db_ok
          THEN /\ rp' = ReportAnswer(rp, 500)
               /\ UNCHANGED recordRows
          ELSE /\ recordRows' =
                    {IF r.uuid = rp.uuid
                     THEN [r EXCEPT !.user_report_link = rp.data.link,
                                    !.user_report_text = rp.data.text]
                     ELSE r : r \in recordRows}
               /\ rp' = [rp EXCEPT !.pc = "reselect"]
    /\ UNCHANGED <<codecVars, diffVars, schedVars, enumMembers, imageRows, nextImageId, blobs,
                   nextUuid, mails, up, vp, started>>

\* validation_service.py:1140-1165
ReportReselect ==
    /\ rp.pc = "reselect"
    /\ \E db_ok \in BOOLEAN :
          rp' = IF ~db_ok \/ RecordsOf(rp.uuid) = {} THEN ReportAnswer(rp, 500)
                ELSE ReportAnswer(rp, 200)
    /\ UNCHANGED <<codecVars, diffVars, schedVars, sysVars>>

(***************************************************************************)
(* The service.  Spec is the program as src/app/models.py declares its     *)
(* enum: _send_to_ai_server raises before it reaches the oracle, so no     *)
(* upload gets past it, table image stays empty, and the steps that follow *)
(* are left out of Next because they can never be taken.  SpecMember is    *)
(* the same program with the member FAKEFACE that image_service.py:237     *)
(* looks up present in the enum: there every step of the two handlers is   *)
(* reachable.                                                              *)
(***************************************************************************)
DiffOff ==
    /\ diffRef = <<>>
    /\ diffCand = <<>>
    /\ diffOut = [mask |-> NoMask, rate |-> 0]
    /\ diffNote = [kind |-> "", user |-> 0, owner |-> 0, rate |-> 0]
    /\ diffPc = "off"

\* no update_user_report call and no scheduler is modelled
RestOff ==
    /\ rp = [pc |-> "off"]
    /\ simple = [pc |-> "off"]
    /\ background = [pc |-> "off"]

CodecOff ==
    /\ codecId = {}
    /\ codecPayload = <<>>
    /\ codecFlips = {}
    /\ codecOut = [raised |-> FALSE, idBits |-> {}, nErrors |-> 0]
    /\ codecPc = "off"

InitSystem ==
    /\ imageRows = {}
    /\ nextImageId = 1
    /\ blobs = <<>>
    /\ recordRows = {}
    /\ nextUuid = 1
    /\ mails = <<>>
    /\ up = [u \in UploadTasks |-> IdleUpload]
    /\ vp = [v \in VerifyTasks |-> IdleVerify]
    /\ started = 0

Init ==
    /\ CodecOff
    /\ DiffOff
    /\ RestOff
    /\ enumMembers = ProtectionAlgorithm
    /\ InitSystem

Next ==
    \/ \E u \in UploadTasks : UploadBegin(u)
    \/ \E u \in UploadTasks : UploadSendToAiServer(u)
    \/ \E v \in VerifyTasks : VerifyBegin(v)
    \/ \E v \in VerifyTasks : VerifyOracleReply(v)
    \/ \E v \in VerifyTasks : VerifyCheckExists(v)
    \/ \E v \in VerifyTasks : VerifyInsertRecord(v)
    \/ \E v \in VerifyTasks : VerifyCancel(v)

Spec == Init /\ [][Next]_vars

InitMember ==
    /\ CodecOff
    /\ DiffOff
    /\ RestOff
    /\ enumMembers = ProtectionAlgorithm \cup {"FAKEFACE"}
    /\ InitSystem

NextMember ==
    \/ Next
    \/ \E u \in UploadTasks : UploadOracleFails(u)
    \/ \E u \in UploadTasks : UploadOracleAnswers(u)
    \/ \E u \in UploadTasks : UploadCommit(u)
    \/ \E u \in UploadTasks : UploadCancel(u)
    \/ \E v \in VerifyTasks : VerifyPixelCompare(v)
    \/ \E v \in VerifyTasks : VerifySaveArtifacts(v)
    \/ \E v \in VerifyTasks : VerifyNotify(v)

SpecMember == InitMember /\ [][NextMember]_vars

(***************************************************************************)
(* Start of the process.  Importing app/db.py runs drop_all and then       *)
(* create_all on the engine (db.py:9-12): every table is dropped and       *)
(* created empty, so the AUTO_INCREMENT of image.id starts at 1 again.     *)
(* The handlers that were running in the process that ended are gone; the  *)
(* blob store and the mails already sent are outside the process.          *)
(* SpecRestart is SpecMember with this step.                               *)
(***************************************************************************)
ProcessStart ==
    /\ imageRows' = {}
    /\ recordRows' = {}
    /\ nextImageId' = 1
    /\ up' = [u \in UploadTasks |-> IdleUpload]
    /\ vp' = [v \in VerifyTasks |-> IdleVerify]
    /\ UNCHANGED <<codecVars, diffVars, reportVars, schedVars, enumMembers, blobs, nextUuid, mails, started>>

SpecRestart == InitMember /\ [][NextMember \/ ProcessStart]_vars

(***************************************************************************)
(* Two verifications side by side.  SpecPair starts where SpecMember is    *)
(* after user 1's upload of GoodFile with algorithm EditGuard committed    *)
(* (row 1 and both blobs of asset 1) and runs validate_image in two        *)
(* requests, once in each, that may interleave at every await.             *)
(***************************************************************************)
VerifyPair == {"v1", "v2"}

AssetCommitted ==
    LET name == clean_filename(GoodFile.filename)
    IN  /\ imageRows = {ImageRecord(1, 1, name, "committed")}
        /\ nextImageId = 2
        /\ blobs = Put(Put(<<>>, GtPath(1, name), GoodFile.content),
                       SrhPath(1, name), Bytes(GoodFile.content.px, Payload(1)))

InitPair ==
    /\ CodecOff
    /\ DiffOff
    /\ RestOff
    /\ enumMembers = ProtectionAlgorithm \cup {"FAKEFACE"}
    /\ AssetCommitted
    /\ recordRows = {}
    /\ nextUuid = 1
    /\ mails = <<>>
    /\ up = [u \in UploadTasks |-> IdleUpload]
    /\ vp = [v \in VerifyPair |-> IdleVerify]
    /\ started = 0

\* a request that has not run yet calls validate_image with the watermarked
\* image of asset 1 as a PNG file
NextPair ==
    \/ \E v \in VerifyPair :
          /\ vp[v].pc = "idle"
          /\ VerifyBegin(v)
          /\ vp'[v].pc = "oracle"
          /\ vp'[v].file = GoodFile
          /\ vp'[v].content \in StoredWatermarked
    \/ \E v \in VerifyPair : VerifyOracleReply(v)
    \/ \E v \in VerifyPair : VerifyCheckExists(v)
    \/ \E v \in VerifyPair : VerifyPixelCompare(v)
    \/ \E v \in VerifyPair : VerifyInsertRecord(v)
    \/ \E v \in VerifyPair : VerifySaveArtifacts(v)
    \/ \E v \in VerifyPair : VerifyNotify(v)
    \/ \E v \in VerifyPair : VerifyCancel(v)

SpecPair == InitPair /\ [][NextPair]_vars

(***************************************************************************)
(* Reports.  SpecReport starts after the same committed upload and runs    *)
(* one validate_image request next to update_user_report calls, which      *)
(* follow one another without bound.                                       *)
(***************************************************************************)
InitReport ==
    /\ CodecOff
    /\ DiffOff
    /\ simple = [pc |-> "off"]
    /\ background = [pc |-> "off"]
    /\ rp = [pc |-> "idle", user |-> 0, uuid |-> 0, data |-> NoReport, status |-> 0]
    /\ enumMembers = ProtectionAlgorithm \cup {"FAKEFACE"}
    /\ AssetCommitted
    /\ recordRows = {}
    /\ nextUuid = 1
    /\ mails = <<>>
    /\ up = [u \in UploadTasks |-> IdleUpload]
    /\ vp = [v \in VerifyTasks |-> IdleVerify]
    /\ started = 0

\* the request calls validate_image once
NextReport ==
    \/ \E v \in VerifyTasks : vp[v].pc = "idle" /\ VerifyBegin(v)
    \/ \E v \in VerifyTasks : VerifyOracleReply(v)
    \/ \E v \in VerifyTasks : VerifyCheckExists(v)
    \/ \E v \in VerifyTasks : VerifyPixelCompare(v)
    \/ \E v \in VerifyTasks : VerifyInsertRecord(v)
    \/ \E v \in VerifyTasks : VerifySaveArtifacts(v)
    \/ \E v \in VerifyTasks : VerifyNotify(v)
    \/ \E v \in VerifyTasks : VerifyCancel(v)
    \/ ReportBegin
    \/ ReportSelect
    \/ ReportUpdate
    \/ ReportReselect

SpecReport == InitReport /\ [][NextReport]_vars

(***************************************************************************)
(* The codec on its own: an identifier is encoded, the payload is          *)
(* corrupted in up to MaxFlips positions, and the result is decoded.       *)
(***************************************************************************)
MaxFlips == 5

\* identifiers tried: 0, 1, 5, 2^20, 2^38, 2^38 + 1 and 2^39 - 1
CodecIds == {{}, {0}, {0, 2}, {20}, {38}, {0, 38}, 0..38}

\* positions of the payload that may be corrupted (1 = first character,
\* 64 = the framing bit)
FlipPositions == {1, 20, 39, 40, 55, 63, 64}

FlipAt(s, p) == [s EXCEPT ![p] = 1 - s[p]]

InitCodec ==
    /\ DiffOff
    /\ RestOff
    /\ enumMembers = ProtectionAlgorithm
    /\ InitSystem
    /\ codecId \in CodecIds
    /\ codecPayload = <<>>
    /\ codecFlips = {}
    /\ codecOut = [raised |-> FALSE, idBits |-> {}, nErrors |-> 0]
    /\ codecPc = "start"

CodecEncode ==
    /\ codecPc = "start"
    /\ EncodePayload(codecId).ok
    /\ codecPayload' = EncodePayload(codecId).payload
    /\ codecPc' = "sent"
    /\ UNCHANGED <<codecId, codecFlips, codecOut>>
    /\ UNCHANGED <<sysVars, diffVars, reportVars, schedVars>>

CodecFlip ==
    /\ codecPc = "sent"
    /\ Cardinality(codecFlips) < MaxFlips
    /\ \E p \in FlipPositions \ codecFlips :
          /\ codecPayload' = FlipAt(codecPayload, p)
          /\ codecFlips' = codecFlips \cup {p}
    /\ UNCHANGED <<codecId, codecOut, codecPc>>
    /\ UNCHANGED <<sysVars, diffVars, reportVars, schedVars>>

CodecDecode ==
    /\ codecPc = "sent"
    /\ codecOut' = DecodeRecovered(codecPayload)
    /\ codecPc' = "done"
    /\ UNCHANGED <<codecId, codecPayload, codecFlips>>
    /\ UNCHANGED <<sysVars, diffVars, reportVars, schedVars>>

NextCodec == CodecEncode \/ CodecFlip \/ CodecDecode

SpecCodec == InitCodec /\ [][NextCodec]_vars

(***************************************************************************)
(* The analyzer and the notification decision on their own: a submitted    *)
(* image starts as the reference, up to MaxEdits of its pixels are         *)
(* recoloured, the two are compared, and the decision of                   *)
(* validate_image is taken for the analyzer's result.                      *)
(***************************************************************************)
MaxEdits == 2

ReferenceImages == {ImageA, ImageMixed, ImageLarge}

\* the pixels that may be recoloured: the first two, the middle and the last
EditPositions(ref) == {1, 2, Len(ref) \div 2, Len(ref)}

EditColours == {PixelFar, PixelAt10, PixelOver10}

Changed == {p \in EditPositions(diffRef) : diffCand[p] # diffRef[p]}

InitDiff ==
    /\ CodecOff
    /\ RestOff
    /\ enumMembers = ProtectionAlgorithm
    /\ InitSystem
    /\ diffRef \in ReferenceImages
    /\ diffCand = diffRef
    /\ diffOut = [mask |-> NoMask, rate |-> 0]
    /\ diffNote = [kind |-> "", user |-> 0, owner |-> 0, rate |-> 0]
    /\ diffPc = "start"

DiffRecolour ==
    /\ diffPc = "start"
    /\ Cardinality(Changed) < MaxEdits
    /\ \E p \in EditPositions(diffRef) \ Changed, c \in EditColours :
          /\ c # diffRef[p]
          /\ diffCand' = [diffCand EXCEPT ![p] = c]
    /\ UNCHANGED <<diffRef, diffOut, diffNote, diffPc>>
    /\ UNCHANGED <<sysVars, codecVars, reportVars, schedVars>>

\* validation_service.py:699-701
DiffCompare ==
    /\ diffPc = "start"
    /\ diffOut' = _create_difference_mask(Bytes(diffCand, <<>>), Bytes(diffRef, <<>>))
    /\ diffPc' = "compared"
    /\ UNCHANGED <<diffRef, diffCand, diffNote>>
    /\ UNCHANGED <<sysVars, codecVars, reportVars, schedVars>>

\* validation_service.py:704, 154 and 226-253: the analyzer's result is put
\* into the verification result, and the notification is decided for a
\* verifying user and the owner of the recovered asset
DiffNotify ==
    /\ diffPc = "compared"
    /\ \E user \in Users, owner \in Users :
          LET result == _update_verification_result(IdleVerify.result, diffOut.mask,
                                                    diffOut.rate)
              task   == [IdleVerify EXCEPT !.user = user, !.result = result]
          IN  diffNote' = [kind |-> Notification(task, owner), user |-> user,
                           owner |-> owner, rate |-> CalculatedRate(result)]
    /\ diffPc' = "done"
    /\ UNCHANGED <<diffRef, diffCand, diffOut>>
    /\ UNCHANGED <<sysVars, codecVars, reportVars, schedVars>>

NextDiff == DiffRecolour \/ DiffCompare \/ DiffNotify

SpecDiff == InitDiff /\ [][NextDiff]_vars

(***************************************************************************)
(* SimpleScheduler (background_tasks.py:14-77), started by the lifespan    *)
(* handler.  The clock counts minutes from a Monday 00:00, as              *)
(* datetime.weekday() counts days from Monday.  A sender loop is an        *)
(* asyncio task; it is suspended in the batch or in a sleep until its wake *)
(* time, and time passes only while every loop is suspended.  stop() is    *)
(* not taken: SpecSimple is one uninterrupted run.                         *)
(***************************************************************************)
Day == 24 * 60

Week == 7 * Day

\* the last minute the clock reaches
MaxClock == 19300

\* background_tasks.py:33: weekday() == 6, hour == 9, minute < 5
InWindow(now) ==
    /\ (now \div Day) % 7 = 6
    /\ (now % Day) \div 60 = 9
    /\ now % 60 < 5

SundayNine == 6 * Day + 9 * 60

\* asyncio.sleep(300), in minutes
CheckSleep == 300 \div 60

SenderLoop(pc, wake) == [pc |-> pc, wake |-> wake]

\* the process starts around the first window
InitSimple ==
    /\ CodecOff
    /\ DiffOff
    /\ rp = [pc |-> "off"]
    /\ enumMembers = ProtectionAlgorithm
    /\ InitSystem
    /\ background = [pc |-> "off"]
    /\ \E now \in (SundayNine - 7) .. (SundayNine + 5) :
          simple = [running |-> FALSE, loops |-> <<>>, now |-> now, run_count |-> 0,
                    sent |-> <<>>, outcome |-> ""]

\* background_tasks.py:58-66
SimpleStart ==
    /\ simple' = IF simple.running THEN simple
                 ELSE [simple EXCEPT !.running = TRUE,
                                     !.loops = Append(@, SenderLoop("check", simple.now))]
    /\ UNCHANGED <<codecVars, diffVars, reportVars, sysVars, background>>

\* background_tasks.py:28-35 and 47-52: the test of the clock; the batch is
\* called inside the window and takes 0 to 70 minutes, and the loop sleeps
\* five minutes outside it
SimpleCheck(i) ==
    /\ simple.loops[i].pc = "check"
    /\ simple.running
    /\ IF InWindow(simple.now)
       THEN \E took \in {0, 1, 4, 70} :
               simple' = [simple EXCEPT !.run_count = @ + 1,
                                        !.sent = Append(@, simple.now),
                                        !.loops[i] = SenderLoop("sending", simple.now + took)]
       ELSE simple' = [simple EXCEPT !.loops[i] = SenderLoop("sleep", simple.now + CheckSleep)]
    /\ UNCHANGED <<codecVars, diffVars, reportVars, sysVars, background>>

\* background_tasks.py:38-45: the batch returned; the loop sleeps an hour
SimpleSendReturns(i) ==
    /\ simple.loops[i].pc = "sending"
    /\ simple.loops[i].wake = simple.now
    /\ simple' = [simple EXCEPT !.outcome = "ok",
                                !.loops[i] = SenderLoop("cooldown", simple.now + 3600 \div 60)]
    /\ UNCHANGED <<codecVars, diffVars, reportVars, sysVars, background>>

\* a loop that tries again a minute after an error
SimpleSendRaisesRetrySoon(i) ==
    /\ simple.loops[i].pc = "sending"
    /\ simple.loops[i].wake = simple.now
    /\ simple' = [simple EXCEPT !.outcome = "raised",
                                !.loops[i] = SenderLoop("sleep", simple.now + 1)]
    /\ UNCHANGED <<codecVars, diffVars, reportVars, sysVars, background>>

\* background_tasks.py:54-56: the batch raised; the loop sleeps five minutes
SimpleSendRaises(i) ==
    /\ simple.loops[i].pc = "sending"
    /\ simple.loops[i].wake = simple.now
    /\ simple' = [simple EXCEPT !.outcome = "raised",
                                !.loops[i] = SenderLoop("sleep", simple.now + CheckSleep)]
    /\ UNCHANGED <<codecVars, diffVars, reportVars, sysVars, background>>

\* background_tasks.py:45-52: a sleep ends; after the hour's sleep the five
\* minutes' sleep follows, after that the loop tests the clock again
SimpleWake(i) ==
    /\ simple.loops[i].pc \in {"cooldown", "sleep"}
    /\ simple.loops[i].wake = simple.now
    /\ simple' = [simple EXCEPT !.loops[i] =
                     IF simple.loops[i].pc = "cooldown"
                     THEN SenderLoop("sleep", simple.now + CheckSleep)
                     ELSE SenderLoop("check", simple.now)]
    /\ UNCHANGED <<codecVars, diffVars, reportVars, sysVars, background>>

\* time passes to the next wake time while every loop is suspended
SimpleClock ==
    /\ simple.loops # <<>>
    /\ \A i \in 1..Len(simple.loops) : simple.loops[i].wake > simple.now
    /\ \E i \in 1..Len(simple.loops) :
          /\ \A j \in 1..Len(simple.loops) : simple.loops[i].wake <= simple.loops[j].wake
          /\ simple.loops[i].wake <= MaxClock
          /\ simple' = [simple EXCEPT !.now = simple.loops[i].wake]
    /\ UNCHANGED <<codecVars, diffVars, reportVars, sysVars, background>>

NextSimple ==
    \/ SimpleStart
    \/ \E i \in 1..Len(simple.loops) : SimpleCheck(i)
    \/ \E i \in 1..Len(simple.loops) : SimpleSendReturns(i)
    \/ \E i \in 1..Len(simple.loops) : SimpleSendRaises(i)
    \/ \E i \in 1..Len(simple.loops) : SimpleWake(i)
    \/ SimpleClock

SpecSimple == InitSimple /\ [][NextSimple]_vars

(***************************************************************************)
(* BackgroundScheduler (scheduler.py:11-171) with one daily task.  start   *)
(* and stop are called one at a time; every worker is a thread of its      *)
(* own that runs _scheduler_worker.  A worker owns the event loop it       *)
(* created, and attribute loop names the loop created last.  The clock is  *)
(* the number of the day; the task is due once a day.                      *)
(***************************************************************************)
\* threads start() may create, and days the clock reaches
MaxThreads == 2

MaxDays == 2

\* a worker thread: where it is, and the loop it runs a task on (0: none)
Worker(pc, on) == [pc |-> pc, on |-> on]

\* threads that have not left _scheduler_worker
LiveWorkers == {w \in 1..Len(background.workers) : background.workers[w].pc # "ended"}

InitBackground ==
    /\ CodecOff
    /\ DiffOff
    /\ rp = [pc |-> "off"]
    /\ enumMembers = ProtectionAlgorithm
    /\ InitSystem
    /\ simple = [pc |-> "off"]
    /\ background = [running |-> FALSE, workers |-> <<>>, loop |-> 0, day |-> 1,
                     last_run |-> 0, ran |-> {}]

\* scheduler.py:155-164
BackgroundStart ==
    /\ Len(background.workers) < MaxThreads
    /\ background' = IF background.running THEN background
                     ELSE [background EXCEPT !.running = TRUE,
                                             !.workers = Append(@, Worker("begin", 0))]
    /\ UNCHANGED <<codecVars, diffVars, reportVars, sysVars, simple>>

\* scheduler.py:166-171: the flag is cleared and the caller joins the thread
\* that was started last; join(timeout=5) returns when the thread has ended
\* or when five seconds have passed, whichever is first, and a worker sleeps
\* sixty seconds and a task may run longer than five: stop() returns whether
\* or not the worker has ended
BackgroundStop ==
    /\ background.running
    /\ background' = [background EXCEPT !.running = FALSE]
    /\ UNCHANGED <<codecVars, diffVars, reportVars, sysVars, simple>>

\* scheduler.py:133-140: the worker creates its loop, stores it and tests
\* the flag
WorkerBegin(w) ==
    /\ background.workers[w].pc = "begin"
    /\ background' = [background EXCEPT
                         !.loop = w,
                         !.workers[w] = IF background.running THEN Worker("check", 0)
                                        ELSE Worker("ended", 0)]
    /\ UNCHANGED <<codecVars, diffVars, reportVars, sysVars, simple>>

\* scheduler.py:68-112 for a daily task whose time of day has passed
should_run_task(last_run, today) == last_run = 0 \/ last_run # today

\* scheduler.py:142-151: a due task is run on the loop attribute loop names;
\* run_until_complete raises RuntimeError when that loop is running in
\* another thread, and the worker leaves through "except Exception"
WorkerCheck(w) ==
    /\ background.workers[w].pc = "check"
    /\ IF ~should_run_task(background.last_run, background.day)
       THEN background' = [background EXCEPT !.workers[w] = Worker("sleep", 0)]
       ELSE IF \E o \in LiveWorkers :
                  /\ o # w /\ background.workers[o].pc = "running"
                  /\ background.workers[o].on = background.loop
       THEN background' = [background EXCEPT !.workers[w] = Worker("ended", 0)]
       ELSE background' = [background EXCEPT
                              !.workers[w] = Worker("running", background.loop)]
    /\ UNCHANGED <<codecVars, diffVars, reportVars, sysVars, simple>>

\* scheduler.py:114-129: the task returns and last_run is set, or it raises
\* and last_run stays; then the worker sleeps (scheduler.py:148)
WorkerRunEnds(w) ==
    /\ background.workers[w].pc = "running"
    /\ \E ok \in BOOLEAN :
          background' = [background EXCEPT
                            !.last_run = IF ok THEN background.day ELSE @,
                            !.ran = @ \cup {[day |-> background.day, worker |-> w, ok |-> ok]},
                            !.workers[w] = Worker("sleep", 0)]
    /\ UNCHANGED <<codecVars, diffVars, reportVars, sysVars, simple>>

\* scheduler.py:148 and 140: time.sleep(60) returns and the flag is tested
WorkerWake(w) ==
    /\ background.workers[w].pc = "sleep"
    /\ background' = [background EXCEPT
                         !.workers[w] = IF background.running THEN Worker("check", 0)
                                        ELSE Worker("ended", 0)]
    /\ UNCHANGED <<codecVars, diffVars, reportVars, sysVars, simple>>

\* midnight
NextDay ==
    /\ background.day < MaxDays
    /\ background' = [background EXCEPT !.day = @ + 1]
    /\ UNCHANGED <<codecVars, diffVars, reportVars, sysVars, simple>>

NextBackground ==
    \/ BackgroundStart
    \/ BackgroundStop
    \/ \E w \in 1..Len(background.workers) : WorkerBegin(w)
    \/ \E w \in 1..Len(background.workers) : WorkerCheck(w)
    \/ \E w \in 1..Len(background.workers) : WorkerRunEnds(w)
    \/ \E w \in 1..Len(background.workers) : WorkerWake(w)
    \/ NextDay

SpecBackground == InitBackground /\ [][NextBackground]_vars

(***************************************************************************)
(* Properties.                                                             *)
(***************************************************************************)
AssetRetrievable(id) == id \in ImageIds

BlobAt(path) == path \in DOMAIN blobs

\* no asset with the task's identifier is retrievable and neither of its two
\* blobs exists
NothingLeft(task) ==
    /\ ~AssetRetrievable(task.id)
    /\ ~BlobAt(GtPath(task.id, task.name))
    /\ ~BlobAt(SrhPath(task.id, task.name))

\* the leaves ("origi", "wm") of the blobs stored for identifier i
BlobsOf(i) == {q[4] : q \in {x \in DOMAIN blobs : x[1] = "image" /\ x[2] = i}}

C5_HealthyUploadSucceeds ==
    \A u \in UploadTasks :
        (/\ up[u].pc = "done"
         /\ ~up[u].cancelled
         /\ up[u].step \notin {"validate_file", "enum", "oracle", "gt_write",
                               "srh_write", "commit"})
            => (/\ up[u].status = 200
                /\ AssetRetrievable(up[u].id)
                /\ BlobAt(GtPath(up[u].id, up[u].name))
                /\ BlobAt(SrhPath(up[u].id, up[u].name)))

\* C6: decoding the payload that encoding an identifier produced returns that
\* identifier with an error count of 0.
C6_RoundTrip ==
    (codecPc = "done" /\ codecFlips = {})
        => (~codecOut.raised /\ codecOut.idBits = codecId /\ codecOut.nErrors = 0)

\* the round trip of 2^39 - 1, the largest identifier
C6_Witness ==
    /\ codecPc = "done" /\ codecFlips = {}
    /\ codecId = 0..38 /\ codecOut.idBits = 0..38 /\ codecOut.nErrors = 0

\* C7: with at most 4 of the 63 codeword bits flipped, decoding still returns
\* the identifier, and the error count is the number of flipped bits.
C7_BoundedCorrection ==
    (codecPc = "done" /\ codecFlips \subseteq 1..n /\ Cardinality(codecFlips) <= 4)
        => (/\ ~codecOut.raised
            /\ codecOut.idBits = codecId
            /\ codecOut.nErrors = Cardinality(codecFlips))

\* four flips, in the message part and in the parity part, are corrected
C7_Witness ==
    /\ codecPc = "done" /\ codecFlips = {1, 39, 40, 63}
    /\ codecId = {0, 38} /\ codecOut.idBits = {0, 38} /\ codecOut.nErrors = 4

\* C8: a verification whose extracted bits cannot be decoded takes no
\* identifier from them and does not fail: it ends with 200 and a persisted
\* record that says no watermark.
C8_UndecodableIsNoWatermark ==
    \A v \in VerifyTasks :
        /\ vp[v].nErrors = -1 => vp[v].idBits = {}
        /\ vp[v].pc = "done" => vp[v].step # "decode"
        /\ (vp[v].pc = "done" /\ vp[v].nErrors = -1 /\ ~vp[v].cancelled)
              => (/\ vp[v].status = 200
                  /\ \E r \in RecordsOf(vp[v].uuid) : ~r.has_watermark)

\* C9: when the decoded identifier names no asset, the step that finds this
\* out ends the call with a failure status; the call has inserted no record
\* and the step writes neither a record nor a blob.
C9_UnknownAssetFails ==
    [][\A v \in VerifyTasks :
          (/\ vp[v].pc = "check"
           /\ ~\E i \in ImageIds : NatBits(i) = vp[v].idBits
           /\ vp'[v] # vp[v]
           /\ ~vp'[v].cancelled)
              => (/\ vp'[v].pc = "done"
                  /\ vp'[v].status \in {400, 500}
                  /\ vp'[v].uuid = 0
                  /\ recordRows' = recordRows
                  /\ blobs' = blobs)]_vars

\* a verification ended with 500 at the lookup, with no record of its own
C9_Witness ==
    \E v \in VerifyTasks :
        /\ vp[v].pc = "done" /\ vp[v].step = "lookup" /\ vp[v].status = 500
        /\ vp[v].uuid = 0 /\ recordRows = {}

EndToEndCase(task) ==
    IF task.id \notin ImageIds THEN FALSE
    ELSE LET row == ImageRow(task.id)
             srh == SrhPath(row.id, row.filename)
         IN  /\ row.user_id # task.user
             /\ BlobAt(srh)
             /\ task.content = blobs[srh]
             /\ task.content.mark = EncodePayload(NatBits(task.id)).payload
             /\ task.idBits = NatBits(task.id)
             /\ task.nErrors = 0

C14_DiffIdentity ==
    (diffPc \in {"compared", "done"} /\ diffCand = diffRef)
        => (/\ diffOut.rate = 0
            /\ Len(diffOut.mask.alpha) = Len(diffRef)
            /\ \A i \in 1..Len(diffOut.mask.alpha) : diffOut.mask.alpha[i] = 0)

C14_Witness ==
    /\ diffPc = "compared" /\ diffCand = diffRef /\ diffRef = ImageMixed
    /\ diffOut.rate = 0 /\ diffOut.mask.kind = "diff"

\* Euclidean RGB distance strictly greater than 10
FarApart(a, b) ==
    Square(a[1] - b[1]) + Square(a[2] - b[2]) + Square(a[3] - b[3]) > 100

\* C15: the mask is opaque at exactly the pixels whose distance from the
\* reference exceeds 10, and the ratio is their number / total pixels * 100
\* (in hundredths of a percent); a pixel at distance 10 or less is not counted.
C15_ExactCount ==
    diffPc \in {"compared", "done"}
        => LET far == {p \in 1..Len(diffRef) : FarApart(diffCand[p], diffRef[p])}
           IN  /\ Len(diffOut.mask.alpha) = Len(diffRef)
               /\ \A p \in 1..Len(diffRef) :
                     diffOut.mask.alpha[p] = IF p \in far THEN 255 ELSE 0
               /\ diffOut.rate * Len(diffRef) = Cardinality(far) * 10000

\* of 2500 pixels one is moved by sqrt(101) and one by exactly 10: ratio 0.04
C15_Witness ==
    /\ diffPc = "compared" /\ diffRef = ImageLarge
    /\ Changed = {1, 2500}
    /\ diffCand[1] = PixelOver10 /\ diffCand[2500] = PixelAt10
    /\ diffOut.rate = 4
    /\ diffOut.mask.alpha[1] = 255 /\ diffOut.mask.alpha[2500] = 0

FormatAndSizeAccepted(file) ==
    /\ file.filename.ext = "png"
    /\ file.content_type = "image/png"
    /\ file.size <= MAX_FILE_SIZE_MB * 1024 * 1024

\* C18: no upload or verification is in progress past validation with a file
\* that is not declared PNG or exceeds 10 MB, and the step that rejects a
\* file answers 400 or 413 and changes neither the catalog nor the blob store.
C18_RejectedBeforeSideEffects ==
    [][/\ \A u \in UploadTasks :
            /\ up'[u].pc \notin {"idle", "done"} => FormatAndSizeAccepted(up'[u].file)
            /\ (up'[u] # up[u] /\ up'[u].pc = "done" /\ up'[u].step = "validate_file")
                  => (/\ up'[u].status \in {400, 413}
                      /\ UNCHANGED <<imageRows, nextImageId, recordRows, blobs>>)
       /\ \A v \in VerifyTasks :
            /\ vp'[v].pc \notin {"idle", "done"} => FormatAndSizeAccepted(vp'[v].file)
            /\ (vp'[v] # vp[v] /\ vp'[v].pc = "done" /\ vp'[v].step = "validate_file")
                  => (/\ vp'[v].status \in {400, 413}
                      /\ UNCHANGED <<imageRows, nextImageId, recordRows, blobs>>)]_vars

\* an oversize upload was answered 413 and a verification of a non-PNG 400,
\* and nothing was written
C18_Witness ==
    /\ \E u \in UploadTasks :
          up[u].pc = "done" /\ up[u].step = "validate_file" /\ up[u].status = 413
    /\ \E v \in VerifyTasks :
          vp[v].pc = "done" /\ vp[v].step = "validate_file" /\ vp[v].status = 400
    /\ imageRows = {} /\ nextImageId = 1 /\ recordRows = {} /\ blobs = <<>>

\* C19: no upload or verification gets past validation with an empty file.
C19_EmptyRejected ==
    /\ \A u \in UploadTasks : up[u].pc \notin {"idle", "done"} => up[u].file.size > 0
    /\ \A v \in VerifyTasks : vp[v].pc \notin {"idle", "done"} => vp[v].file.size > 0

\* C20: a verification that ended because the oracle's extract call failed
\* answers with a gateway status (502 or 504).
C20_GatewayFailure ==
    \A v \in VerifyTasks :
        (vp[v].pc = "done" /\ vp[v].step = "oracle" /\ ~vp[v].cancelled)
            => vp[v].status \in {502, 504}

C29_OncePerWindow ==
    /\ Len(simple.loops) = IF simple.running THEN 1 ELSE 0
    /\ \A a, b \in 1..Len(simple.sent) :
          /\ InWindow(simple.sent[a])
          /\ a # b => simple.sent[a] \div Week # simple.sent[b] \div Week

\* the batch was called at 09:00 and raised at once, the loop tested the
\* clock again at 09:05 and slept, and a week later the batch was called
\* for the second time
C29_Witness ==
    /\ simple.running /\ simple.outcome = "raised"
    /\ Len(simple.sent) = 2
    /\ simple.sent[1] = SundayNine
    /\ simple.sent[2] = SundayNine + Week
    /\ simple.loops[1].pc = "sending"

\* C30: at most one worker thread of BackgroundScheduler is alive, and the
\* task has not completed twice for the same day.
C30_OneWorker ==
    /\ Cardinality(LiveWorkers) <= 1
    /\ \A r1, r2 \in background.ran : (r1.ok /\ r2.ok /\ r1.day = r2.day) => r1 = r2

====
